---- MODULE Spec2Model ----
(***************************************************************************)
(* BoardCommands (src/python/commands/board/__init__.py): a facade that    *)
(* holds one board reference, copies it into four sub-handlers, and        *)
(* delegates ten named operations to them.                                 *)
(* diagnose_board_load.py: a linear script of guarded toolkit probes.      *)
(*                                                                         *)
(* Callers are Python threads.  A statement of the facade is one step; the *)
(* specification Spec lets one call run to completion before the next      *)
(* begins (the request/response server loop), SpecConc interleaves the     *)
(* statements of several callers (nothing in the class takes a lock).      *)
(***************************************************************************)
EXTENDS Naturals, Sequences, FiniteSets, TLC

\* ---------------------------------------------------------------- bounds
NumCallers == 2
Callers == 1..NumCallers
\* SpecConc: the first MaxOverlap calls of a run may overlap one another
MaxOverlap == 2

\* ---------------------------------------------------------------- values
None == "None"
Documents == {"D1", "D2"}
Handles == Documents \cup {None}
\* the value of an attribute before __init__ has assigned it
Unset == "unset"

Params == {"p1", "p2"}
Results == {"r1", "r2"}
Errors == {"e1", "e2"}

NoOutcome == [kind |-> "none", val |-> "none"]
Returned(v) == [kind |-> "return", val |-> v]
Raised(e) == [kind |-> "raise", val |-> e]

\* What a sub-handler operation may do when called: return any result mapping
\* or raise any error.  The sub-handler modules are not part of the facade.
SubOutcomes == {Returned(r) : r \in Results} \cup {Raised(e) : e \in Errors}

\* delegation methods with add_text sent to the layer handler
DelegationMisrouted ==
  [ set_board_size    |-> [handler |-> "size_commands",    method |-> "set_board_size"],
    add_layer         |-> [handler |-> "layer_commands",   method |-> "add_layer"],
    set_active_layer  |-> [handler |-> "layer_commands",   method |-> "set_active_layer"],
    get_layer_list    |-> [handler |-> "layer_commands",   method |-> "get_layer_list"],
    add_board_outline |-> [handler |-> "outline_commands", method |-> "add_board_outline"],
    add_mounting_hole |-> [handler |-> "outline_commands", method |-> "add_mounting_hole"],
    add_text          |-> [handler |-> "layer_commands",   method |-> "add_text"],
    get_board_info    |-> [handler |-> "view_commands",    method |-> "get_board_info"],
    get_board_2d_view |-> [handler |-> "view_commands",    method |-> "get_board_2d_view"],
    get_board_extents |-> [handler |-> "view_commands",    method |-> "get_board_extents"] ]

\* The ten delegation methods of BoardCommands: the attribute holding the
\* sub-handler each one calls, and the method it calls on it.
Delegation ==
  [ set_board_size    |-> [handler |-> "size_commands",    method |-> "set_board_size"],
    add_layer         |-> [handler |-> "layer_commands",   method |-> "add_layer"],
    set_active_layer  |-> [handler |-> "layer_commands",   method |-> "set_active_layer"],
    get_layer_list    |-> [handler |-> "layer_commands",   method |-> "get_layer_list"],
    add_board_outline |-> [handler |-> "outline_commands", method |-> "add_board_outline"],
    add_mounting_hole |-> [handler |-> "outline_commands", method |-> "add_mounting_hole"],
    add_text          |-> [handler |-> "outline_commands", method |-> "add_text"],
    get_board_info    |-> [handler |-> "view_commands",    method |-> "get_board_info"],
    get_board_2d_view |-> [handler |-> "view_commands",    method |-> "get_board_2d_view"],
    get_board_extents |-> [handler |-> "view_commands",    method |-> "get_board_extents"] ]

MethodNames == DOMAIN Delegation

\* operation names the dispatcher may be asked for that the facade does not have
UnknownNames == {"no_such_operation"}

VARIABLES
  phase,             \* "new" before __init__ has run, "ready" after
  board_arg,         \* the argument __init__ was called with
  used,              \* TRUE once any caller has called the facade
  overlap,           \* calls that may still begin without waiting for the others
  _board,            \* self._board
  size_commands,     \* self.size_commands:    [id, board]
  layer_commands,    \* self.layer_commands:   [id, board]
  outline_commands,  \* self.outline_commands: [id, board]
  view_commands,     \* self.view_commands:    [id, board]
  pc,                \* per caller: the statement it is about to execute
  op,                \* per caller: the property or method it called
  arg,               \* per caller: the argument of its call (value or params)
  before,            \* per caller: the five references when its call began
  assigned,          \* per caller: assignments of the setter completed so far
  calls,             \* per caller: sub-handler calls made by its facade call
  sub,               \* per caller: what the sub-handler call came back with
  outcome,           \* per caller: how its facade call ended
  d_pc,              \* diagnose_board_load.py: the line it is about to execute
  d_out,             \* what the script has printed, one token per report
  d_exit,            \* the script's exit status, "running" until it ends
  imported,          \* import pcbnew has succeeded
  announced,         \* pcbnew's file and build version have been printed
  exists,            \* what os.path.exists(board_path) gave at line 64
  load_called,       \* Test 2 has called pcbnew.LoadBoard
  saved,             \* Test 3: SaveBoard has returned
  reloaded,          \* Test 3: LoadBoard(tmp_path) has returned
  removed            \* Test 3: os.remove(tmp_path) has returned

selfVars == <<_board, size_commands, layer_commands, outline_commands, view_commands>>
ctorVars == <<phase, board_arg>>
callerVars == <<pc, op, arg, before, assigned, calls, sub, outcome>>
diagVars == <<d_pc, d_out, d_exit, imported, announced, exists, load_called, saved, reloaded, removed>>
vars == <<ctorVars, used, overlap, selfVars, callerVars, diagVars>>

\* ------------------------------------------------------------- the object
NoObject == [id |-> 0, board |-> Unset]

\* BoardSizeCommands(board) and its three siblings: a new object that stores
\* the board it is given.
SubHandlerInit(n, board) == [id |-> n, board |-> board]

\* obj.board = value
SetBoard(obj, value) == [obj EXCEPT !.board = value]

Handler(name) ==
  CASE name = "size_commands"    -> size_commands
    [] name = "layer_commands"   -> layer_commands
    [] name = "outline_commands" -> outline_commands
    [] name = "view_commands"    -> view_commands

\* the five references, in the order the setter writes them
Refs == << _board, size_commands.board, layer_commands.board,
           outline_commands.board, view_commands.board >>

Ids == << size_commands.id, layer_commands.id, outline_commands.id, view_commands.id >>

Idle == [t \in Callers |-> "idle"]

\* no call is in progress
Quiet == \A u \in Callers : pc[u] = "idle"

InitObject ==
  /\ phase = "new"
  /\ board_arg = Unset
  /\ used = FALSE
  /\ _board = Unset
  /\ size_commands = NoObject
  /\ layer_commands = NoObject
  /\ outline_commands = NoObject
  /\ view_commands = NoObject
  /\ pc = Idle
  /\ op = [t \in Callers |-> "none"]
  /\ arg = [t \in Callers |-> "none"]
  /\ before = [t \in Callers |-> <<>>]
  /\ assigned = [t \in Callers |-> 0]
  /\ calls = [t \in Callers |-> <<>>]
  /\ sub = [t \in Callers |-> NoOutcome]
  /\ outcome = [t \in Callers |-> NoOutcome]
  /\ d_pc = "L26"
  /\ d_out = <<>>
  /\ d_exit = "running"
  /\ imported = FALSE
  /\ announced = FALSE
  /\ exists = "unknown"
  /\ load_called = FALSE
  /\ saved = FALSE
  /\ reloaded = FALSE
  /\ removed = FALSE

\* the server loop: one request at a time
Init == InitObject /\ overlap = 0

\* callers on several threads: the first calls do not wait for one another
InitConc == InitObject /\ overlap = MaxOverlap

\* a constructor that leaves self._board at the parameter's default
ConstructWithoutFacadeHandle(board) ==
  /\ phase = "new"
  /\ phase' = "ready"
  /\ board_arg' = board
  /\ _board' = None
  /\ size_commands' = SubHandlerInit(1, board)
  /\ layer_commands' = SubHandlerInit(2, board)
  /\ outline_commands' = SubHandlerInit(3, board)
  /\ view_commands' = SubHandlerInit(4, board)
  /\ UNCHANGED <<diagVars, used, overlap, callerVars>>

\* BoardCommands.__init__(board)
Construct(board) ==
  /\ phase = "new"
  /\ phase' = "ready"
  /\ board_arg' = board
  /\ _board' = board
  /\ size_commands' = SubHandlerInit(1, board)
  /\ layer_commands' = SubHandlerInit(2, board)
  /\ outline_commands' = SubHandlerInit(3, board)
  /\ view_commands' = SubHandlerInit(4, board)
  /\ UNCHANGED <<diagVars, used, overlap, callerVars>>

\* A caller enters the facade: its frame is fresh.
Enter(t, name, a, at) ==
  /\ phase = "ready"
  /\ pc[t] = "idle"
  /\ Quiet \/ overlap > 0
  /\ overlap' = IF overlap > 0 THEN overlap - 1 ELSE 0
  /\ used' = TRUE
  /\ pc' = [pc EXCEPT ![t] = at]
  /\ op' = [op EXCEPT ![t] = name]
  /\ arg' = [arg EXCEPT ![t] = a]
  /\ before' = [before EXCEPT ![t] = Refs]
  /\ assigned' = [assigned EXCEPT ![t] = 0]
  /\ calls' = [calls EXCEPT ![t] = <<>>]
  /\ sub' = [sub EXCEPT ![t] = NoOutcome]
  /\ UNCHANGED <<diagVars, ctorVars>>

\* ---------------------------------------------------------- board property
\* the getter: return self._board
BoardGetter(t) ==
  /\ Enter(t, "board.getter", "none", "done")
  /\ outcome' = [outcome EXCEPT ![t] = Returned(_board)]
  /\ UNCHANGED selfVars

\* the setter is called with value
BoardSetterCall(t, value) ==
  /\ Enter(t, "board.setter", value, "L38")
  /\ outcome' = [outcome EXCEPT ![t] = NoOutcome]
  /\ UNCHANGED selfVars

Advance(t, from, to) ==
  /\ pc[t] = from
  /\ pc' = [pc EXCEPT ![t] = to]
  /\ assigned' = [assigned EXCEPT ![t] = @ + 1]
  /\ UNCHANGED <<diagVars, ctorVars, used, overlap, op, arg, before, calls, sub, outcome>>

\* self._board = value
Line38(t) ==
  /\ Advance(t, "L38", "L40")
  /\ _board' = arg[t]
  /\ UNCHANGED <<size_commands, layer_commands, outline_commands, view_commands>>

\* a setter whose first propagation writes the layer handler
Line40WritesLayer(t) ==
  /\ Advance(t, "L40", "L41")
  /\ layer_commands' = SetBoard(layer_commands, arg[t])
  /\ UNCHANGED <<_board, size_commands, outline_commands, view_commands>>

\* self.size_commands.board = value
Line40(t) ==
  /\ Advance(t, "L40", "L41")
  /\ size_commands' = SetBoard(size_commands, arg[t])
  /\ UNCHANGED <<_board, layer_commands, outline_commands, view_commands>>

\* self.layer_commands.board = value
Line41(t) ==
  /\ Advance(t, "L41", "L42")
  /\ layer_commands' = SetBoard(layer_commands, arg[t])
  /\ UNCHANGED <<_board, size_commands, outline_commands, view_commands>>

\* a setter that forgets the outline handler
Line42Skipped(t) ==
  /\ Advance(t, "L42", "L43")
  /\ UNCHANGED selfVars

\* self.outline_commands.board = value
Line42(t) ==
  /\ Advance(t, "L42", "L43")
  /\ outline_commands' = SetBoard(outline_commands, arg[t])
  /\ UNCHANGED <<_board, size_commands, layer_commands, view_commands>>

\* self.view_commands.board = value
Line43(t) ==
  /\ Advance(t, "L43", "L44")
  /\ view_commands' = SetBoard(view_commands, arg[t])
  /\ UNCHANGED <<_board, size_commands, layer_commands, outline_commands>>

\* logger.debug(...) and the implicit return None
Line44(t) ==
  /\ pc[t] = "L44"
  /\ pc' = [pc EXCEPT ![t] = "done"]
  /\ outcome' = [outcome EXCEPT ![t] = Returned(None)]
  /\ UNCHANGED <<diagVars, ctorVars, used, overlap, selfVars, op, arg, before, assigned, calls, sub>>

\* An assignment to a sub-handler's attribute raises (the attribute is the
\* sub-handler's to define): the setter has no try, the error leaves it at once.
AssignRaises(t, e) ==
  /\ pc[t] \in {"L40", "L41", "L42", "L43"}
  /\ pc' = [pc EXCEPT ![t] = "done"]
  /\ outcome' = [outcome EXCEPT ![t] = Raised(e)]
  /\ UNCHANGED <<diagVars, ctorVars, used, overlap, selfVars, op, arg, before, assigned, calls, sub>>

\* ------------------------------------------------------ delegation methods
\* where a delegation method starts: get_board_info logs first
FirstStatement(name) == IF name = "get_board_info" THEN "L80" ELSE "delegate"

\* facade.<name>(params) for one of the ten methods
MethodCall(t, name, params) ==
  /\ name \in MethodNames
  /\ Enter(t, name, params, FirstStatement(name))
  /\ outcome' = [outcome EXCEPT ![t] = NoOutcome]
  /\ UNCHANGED selfVars

\* a logging line that resets the facade's reference
Line80Clears(t) ==
  /\ pc[t] = "L80"
  /\ pc' = [pc EXCEPT ![t] = "delegate"]
  /\ _board' = None
  /\ UNCHANGED <<diagVars, ctorVars, used, overlap, op, arg, before, assigned, calls, sub, outcome>>
  /\ UNCHANGED <<size_commands, layer_commands, outline_commands, view_commands>>

\* get_board_info: logger.info(... self.board is None ...), a read of the getter
Line80(t) ==
  /\ pc[t] = "L80"
  /\ pc' = [pc EXCEPT ![t] = "delegate"]
  /\ UNCHANGED <<diagVars, ctorVars, used, overlap, selfVars, op, arg, before, assigned, calls, sub, outcome>>

\* the call the method makes: self.<handler>.<method>(params)
DelegatedCall(t) ==
  [ handler |-> Delegation[op[t]].handler,
    id      |-> Handler(Delegation[op[t]].handler).id,
    method  |-> Delegation[op[t]].method,
    params  |-> arg[t] ]

\* a facade that answers by itself when it holds no board
DelegateUnlessAbsent(t) ==
  /\ pc[t] = "delegate"
  /\ IF _board = None
       THEN /\ pc' = [pc EXCEPT ![t] = "done"]
            /\ outcome' = [outcome EXCEPT ![t] = Returned("r1")]
            /\ calls' = calls
       ELSE /\ pc' = [pc EXCEPT ![t] = "in_sub"]
            /\ calls' = [calls EXCEPT ![t] = Append(@, DelegatedCall(t))]
            /\ outcome' = outcome
  /\ UNCHANGED <<diagVars, ctorVars, used, overlap, selfVars, op, arg, before, assigned, sub>>

Delegate(t) ==
  /\ pc[t] = "delegate"
  /\ pc' = [pc EXCEPT ![t] = "in_sub"]
  /\ calls' = [calls EXCEPT ![t] = Append(@, DelegatedCall(t))]
  /\ UNCHANGED <<diagVars, ctorVars, used, overlap, selfVars, op, arg, before, assigned, sub, outcome>>

\* the sub-handler's operation runs and comes back
SubHandlerRun(t, out) ==
  /\ pc[t] = "in_sub"
  /\ pc' = [pc EXCEPT ![t] = "return"]
  /\ sub' = [sub EXCEPT ![t] = out]
  /\ UNCHANGED <<diagVars, ctorVars, used, overlap, selfVars, op, arg, before, assigned, calls, outcome>>

\* a method that catches the sub-handler's error and answers with a result
ForwardCaught(out) == IF out.kind = "raise" THEN Returned("r1") ELSE out

\* what the method does with what came back: return <call>, with no try
Forward(out) == out

MethodReturn(t) ==
  /\ pc[t] = "return"
  /\ pc' = [pc EXCEPT ![t] = "done"]
  /\ outcome' = [outcome EXCEPT ![t] = Forward(sub[t])]
  /\ UNCHANGED <<diagVars, ctorVars, used, overlap, selfVars, op, arg, before, assigned, calls, sub>>

\* a dispatcher that answers an unknown name with a result
InvokeUnknownAnswered(t, name, params) ==
  /\ name \notin MethodNames
  /\ Enter(t, name, params, "done")
  /\ outcome' = [outcome EXCEPT ![t] = Returned("r1")]
  /\ UNCHANGED selfVars

\* invoke(name, params) with a name no sub-handler owns
InvokeUnknown(t, name, params) ==
  /\ name \notin MethodNames
  /\ Enter(t, name, params, "done")
  /\ outcome' = [outcome EXCEPT ![t] = Raised("UnknownOperation")]
  /\ UNCHANGED selfVars

\* the caller has its answer and is free to call again
Finish(t) ==
  /\ pc[t] = "done"
  /\ pc' = [pc EXCEPT ![t] = "idle"]
  /\ op' = [op EXCEPT ![t] = "none"]
  /\ arg' = [arg EXCEPT ![t] = "none"]
  /\ before' = [before EXCEPT ![t] = <<>>]
  /\ assigned' = [assigned EXCEPT ![t] = 0]
  /\ calls' = [calls EXCEPT ![t] = <<>>]
  /\ sub' = [sub EXCEPT ![t] = NoOutcome]
  /\ outcome' = [outcome EXCEPT ![t] = NoOutcome]
  /\ UNCHANGED <<diagVars, ctorVars, used, overlap, selfVars>>

\* ------------------------------------------------- diagnose_board_load.py
\* The classes of exception a call into the toolkit may raise (all of them
\* subclasses of Exception).
Exceptions == {"ImportError", "AttributeError", "RuntimeError"}
Ok == "ok"

facadeVars == <<ctorVars, used, overlap, selfVars, callerVars>>

\* the script moves to line `to`, printing `tokens`
Goto(to, tokens) ==
  /\ d_pc' = to
  /\ d_out' = d_out \o tokens
  /\ UNCHANGED facadeVars

\* an exception no handler catches: traceback, exit status 1
Uncaught ==
  /\ Goto("exited", <<"Traceback">>)
  /\ d_exit' = "1"

\* the except clause of lines 30-32 catches ImportError only
GuardRaise(e) ==
  IF e = "ImportError"
    THEN Goto("L31", <<>>) /\ d_exit' = d_exit
    ELSE Uncaught

\* line 26: import pcbnew
Import(r) ==
  /\ d_pc = "L26"
  /\ IF r = Ok
       THEN Goto("L27", <<>>) /\ imported' = TRUE /\ d_exit' = d_exit
       ELSE GuardRaise(r) /\ imported' = imported
  /\ UNCHANGED <<announced, exists, load_called, saved, reloaded, removed>>

\* lines 27-29: print pcbnew.__file__ and pcbnew.GetBuildVersion()
PrintVersion(r) ==
  /\ d_pc = "L27"
  /\ IF r = Ok
       THEN Goto("L35", <<>>) /\ d_exit' = d_exit
       ELSE GuardRaise(r)
  /\ announced' = (r = Ok)
  /\ UNCHANGED <<imported, exists, load_called, saved, reloaded, removed>>

\* lines 31-32: print FAILED to import; sys.exit(1)
ImportFailed ==
  /\ d_pc = "L31"
  /\ Goto("exited", <<"FAILED to import">>)
  /\ d_exit' = "1"
  /\ UNCHANGED <<imported, announced, exists, load_called, saved, reloaded, removed>>

\* a test's step that changes nothing but the line and the output
Say(to, tokens) ==
  /\ Goto(to, tokens)
  /\ UNCHANGED <<d_exit, imported, announced, exists, load_called, saved, reloaded, removed>>

\* lines 35-37
Test1Begin ==
  /\ d_pc = "L35"
  /\ Say("L39", <<"TEST 1">>)

\* a Test 1 whose handler does not catch what the toolkit raised
Test1Uncaught(r) ==
  /\ d_pc = "L39"
  /\ IF r = Ok
       THEN Goto("L48", <<"T1 PASS">>) /\ d_exit' = d_exit
       ELSE Uncaught
  /\ UNCHANGED <<imported, announced, exists, load_called, saved, reloaded, removed>>

\* lines 38-46: try: pcbnew.BOARD() and its prints; except Exception
Test1(r) ==
  /\ d_pc = "L39"
  /\ Say("L48", IF r = Ok THEN <<"T1 PASS">> ELSE <<"T1 FAILED">>)

\* lines 48-62
Test2Begin ==
  /\ d_pc = "L48"
  /\ Say("L64", <<"TEST 2">>)

\* line 64: if os.path.exists(board_path)
Test2Exists(b) ==
  /\ d_pc = "L64"
  /\ Goto(IF b THEN "L66" ELSE "L116", <<>>)
  /\ exists' = IF b THEN "yes" ELSE "no"
  /\ UNCHANGED <<d_exit, imported, announced, load_called, saved, reloaded, removed>>

\* lines 116-123
Test2Skipped ==
  /\ d_pc = "L116"
  /\ Say("L125", <<"T2 SKIPPED">>)

\* lines 66-69 and the branch of line 71: r is the board, None or an exception
Test2Load(r) ==
  /\ d_pc = "L66"
  /\ Goto(CASE r = "board" -> "L72" [] r = "none" -> "L109" [] OTHER -> "L112", <<>>)
  /\ load_called' = TRUE
  /\ UNCHANGED <<d_exit, imported, announced, exists, saved, reloaded, removed>>

\* the five probes of lines 72-99, each in its own try/except Exception
ProbeLines == <<"L72", "L77", "L82", "L89", "L95", "L102">>
\* what a failed probe prints
ProbeNames == <<"bool FAILED", "GetFileName FAILED", "BBox FAILED",
               "Footprints FAILED", "Nets FAILED">>

Test2Probe(i, r) ==
  /\ d_pc = ProbeLines[i]
  /\ Say(ProbeLines[i + 1], IF r = Ok THEN <<>> ELSE <<ProbeNames[i]>>)

\* lines 102-107: thisown, except AttributeError; then Result: PASS
Test2ThisOwn(r) ==
  /\ d_pc = "L102"
  /\ IF r \in {Ok, "AttributeError"}
       THEN Say("L125", <<"T2 PASS">>)
       ELSE Say("L112", <<>>)

\* line 109
Test2None ==
  /\ d_pc = "L109"
  /\ Say("L125", <<"T2 FAIL">>)

\* lines 111-114: except Exception
Test2Except ==
  /\ d_pc = "L112"
  /\ Say("L125", <<"T2 FAILED">>)

\* lines 125-130
Test3Begin ==
  /\ d_pc = "L125"
  /\ Say("L132", <<"TEST 3">>)

\* lines 132-134: pcbnew.BOARD(), SetFileName
Test3Create(r) ==
  /\ d_pc = "L132"
  /\ Say(IF r = Ok THEN "L135" ELSE "L150", <<>>)

\* lines 135-136: pcbnew.SaveBoard(tmp_path, board3)
Test3Save(r) ==
  /\ d_pc = "L135"
  /\ Goto(IF r = Ok THEN "L138" ELSE "L150", <<>>)
  /\ saved' = (r = Ok)
  /\ UNCHANGED <<d_exit, imported, announced, exists, load_called, reloaded, removed>>

\* lines 138-141: pcbnew.LoadBoard(tmp_path): the board, None or an exception
Test3Reload(r) ==
  /\ d_pc = "L138"
  /\ Goto(CASE r = "board" -> "L142" [] r = "none" -> "L146" [] OTHER -> "L150", <<>>)
  /\ reloaded' = (r \in {"board", "none"})
  /\ UNCHANGED <<d_exit, imported, announced, exists, load_called, saved, removed>>

\* lines 142-144: bool, GetFileName, Result: PASS
Test3Inspect(r) ==
  /\ d_pc = "L142"
  /\ IF r = Ok
       THEN Say("L148", <<"T3 PASS">>)
       ELSE Say("L150", <<>>)

\* line 146
Test3None ==
  /\ d_pc = "L146"
  /\ Say("L148", <<"T3 FAIL">>)

\* line 148: os.remove(tmp_path)
Test3Remove(r) ==
  /\ d_pc = "L148"
  /\ Goto(IF r = Ok THEN "L154" ELSE "L150", <<>>)
  /\ removed' = (r = Ok)
  /\ UNCHANGED <<d_exit, imported, announced, exists, load_called, saved, reloaded>>

\* lines 149-152: except Exception
Test3Except ==
  /\ d_pc = "L150"
  /\ Say("L154", <<"T3 FAILED">>)

\* lines 154-155: Diagnostics complete; the script ends
Complete ==
  /\ d_pc = "L154"
  /\ Goto("exited", <<"Diagnostics complete.">>)
  /\ d_exit' = "0"
  /\ UNCHANGED <<imported, announced, exists, load_called, saved, reloaded, removed>>

Outcomes == {Ok} \cup Exceptions
Loaded == {"board", "none"} \cup Exceptions

DiagNext ==
  \/ \E r \in Outcomes : Import(r)
  \/ \E r \in Outcomes : PrintVersion(r)
  \/ ImportFailed
  \/ Test1Begin
  \/ \E r \in Outcomes : Test1(r)
  \/ Test2Begin
  \/ \E b \in BOOLEAN : Test2Exists(b)
  \/ Test2Skipped
  \/ \E r \in Loaded : Test2Load(r)
  \/ \E i \in 1..Len(ProbeNames), r \in Outcomes : Test2Probe(i, r)
  \/ \E r \in Outcomes : Test2ThisOwn(r)
  \/ Test2None
  \/ Test2Except
  \/ Test3Begin
  \/ \E r \in Outcomes : Test3Create(r)
  \/ \E r \in Outcomes : Test3Save(r)
  \/ \E r \in Loaded : Test3Reload(r)
  \/ \E r \in Outcomes : Test3Inspect(r)
  \/ Test3None
  \/ \E r \in Outcomes : Test3Remove(r)
  \/ Test3Except
  \/ Complete

SpecDiag == Init /\ [][DiagNext]_vars

\* ------------------------------------------------------------ specifications
Next ==
  \/ \E board \in Handles : Construct(board)
  \/ \E t \in Callers : BoardGetter(t)
  \/ \E t \in Callers, value \in Handles : BoardSetterCall(t, value)
  \/ \E t \in Callers, name \in MethodNames, params \in Params : MethodCall(t, name, params)
  \/ \E t \in Callers, name \in UnknownNames, params \in Params : InvokeUnknown(t, name, params)
  \/ \E t \in Callers : Line38(t)
  \/ \E t \in Callers : Line40(t)
  \/ \E t \in Callers : Line41(t)
  \/ \E t \in Callers : Line42(t)
  \/ \E t \in Callers : Line43(t)
  \/ \E t \in Callers : Line44(t)
  \/ \E t \in Callers, e \in Errors : AssignRaises(t, e)
  \/ \E t \in Callers : Line80(t)
  \/ \E t \in Callers : Delegate(t)
  \/ \E t \in Callers, out \in SubOutcomes : SubHandlerRun(t, out)
  \/ \E t \in Callers : MethodReturn(t)
  \/ \E t \in Callers : Finish(t)

Spec == Init /\ [][Next]_vars

SpecConc == InitConc /\ [][Next]_vars

\* =================================================================== claims
\* the routing table of the specification: operation name -> owning category
RoutingTable ==
  [ set_board_size    |-> "size",
    add_layer         |-> "layer",
    set_active_layer  |-> "layer",
    get_layer_list    |-> "layer",
    add_board_outline |-> "outline",
    add_mounting_hole |-> "outline",
    add_text          |-> "outline",
    get_board_info    |-> "view",
    get_board_2d_view |-> "view",
    get_board_extents |-> "view" ]

\* the attribute of the facade that holds a category's sub-handler, and the
\* identity that sub-handler was given at construction
CategoryAttr ==
  [ size |-> "size_commands", layer |-> "layer_commands",
    outline |-> "outline_commands", view |-> "view_commands" ]
CategoryId == [ size |-> 1, layer |-> 2, outline |-> 3, view |-> 4 ]

All(h) == <<h, h, h, h, h>>

SetterReturned(t) ==
  op[t] = "board.setter" /\ pc[t] = "done" /\ outcome[t].kind = "return"

\* C1: after every board-setter call that returns, in any sequence of such
\* calls and for any value including None, the facade's reference and the four
\* sub-handlers' references all equal the value of that call.
C1_SetterPropagates ==
  \A t \in Callers : SetterReturned(t) => Refs = All(arg[t])

\* D1 was everywhere, the setter was called with D2 and has returned: D2 is
\* everywhere and D1 nowhere
C1_Witness ==
  \E t \in Callers :
    /\ SetterReturned(t)
    /\ before[t] = All("D1")
    /\ arg[t] = "D2"
    /\ Refs = All("D2")

\* C2: right after construction with h0 (None included) the facade and the
\* four sub-handlers all hold h0, and the getter returns the facade's handle.
C2_ConstructedWithInitialHandle ==
  /\ (phase = "ready" /\ ~used) => Refs = All(board_arg)
  /\ \A t \in Callers :
       (op[t] = "board.getter" /\ pc[t] = "done")
         => outcome[t] = Returned(before[t][1])

\* constructed with None, the first call is the getter and it returns None
C2_Witness ==
  /\ board_arg = None
  /\ Refs = All(None)
  /\ \E t \in Callers :
       op[t] = "board.getter" /\ pc[t] = "done" /\ outcome[t] = Returned(None)

\* the one call the routing table asks of a finished facade operation
OwnerCall(t) ==
  [ handler |-> CategoryAttr[RoutingTable[op[t]]],
    id      |-> CategoryId[RoutingTable[op[t]]],
    method  |-> op[t],
    params  |-> arg[t] ]

Finished(t) == op[t] \in DOMAIN RoutingTable /\ pc[t] = "done"

\* C3: each of the ten operations calls exactly one sub-handler operation,
\* once: the like-named operation of the category the routing table gives,
\* on the instance made at construction, with the caller's params; and what
\* that operation returns is what the facade returns.
C3_DelegatesToOwner ==
  \A t \in Callers :
    Finished(t) =>
      /\ calls[t] = << OwnerCall(t) >>
      /\ sub[t].kind = "return" => outcome[t] = sub[t]

C3_Witness ==
  \E t \in Callers :
    /\ Finished(t)
    /\ op[t] = "add_text"
    /\ arg[t] = "p2"
    /\ calls[t] = << [handler |-> "outline_commands", id |-> 3,
                      method |-> "add_text", params |-> "p2"] >>
    /\ outcome[t] = Returned("r2")

UnknownFinished(t) ==
  /\ pc[t] = "done"
  /\ op[t] \notin DOMAIN RoutingTable \cup {"board.getter", "board.setter"}

\* C4: a name outside the routing table fails with UnknownOperation, calls no
\* sub-handler and leaves the five references as they were.
C4_UnknownOperation ==
  \A t \in Callers :
    UnknownFinished(t) =>
      /\ outcome[t] = Raised("UnknownOperation")
      /\ calls[t] = <<>>
      /\ Refs = before[t]

C4_Witness ==
  \E t \in Callers :
    /\ UnknownFinished(t)
    /\ op[t] = "no_such_operation"
    /\ outcome[t] = Raised("UnknownOperation")
    /\ _board = "D1"

\* C5: when the sub-handler operation raises e, the facade operation ends
\* with exactly e, and the sub-handler operation was called once.
C5_ErrorsPropagate ==
  \A t \in Callers :
    (Finished(t) /\ sub[t].kind = "raise") =>
      /\ outcome[t] = sub[t]
      /\ Len(calls[t]) = 1

C5_Witness ==
  \E t \in Callers :
    /\ Finished(t)
    /\ sub[t] = Raised("e2")
    /\ outcome[t] = Raised("e2")
    /\ Len(calls[t]) = 1

\* C6: in every state another caller can observe, every sub-handler's
\* reference is the facade's: no delegated operation is about to run, or is
\* running, while some sub-handler holds another reference than the facade.
C6_NoStaleSubHandler ==
  \A t \in Callers :
    pc[t] \in {"delegate", "in_sub"} => Refs = All(_board)

InSetterAssignment(t) ==
  /\ op[t] = "board.setter"
  /\ pc[t] \in {"L38", "L40", "L41", "L42", "L43"}
  /\ pc'[t] # pc[t]

\* C7: the five references change only in a step of the board setter (never in
\* the getter or in a delegation method, get_board_info's logging included),
\* and the four sub-handler instances stay the ones made at construction.
C7_OnlySetterWrites ==
  [][ phase = "ready" =>
        /\ Ids' = Ids
        /\ Refs' # Refs => \E t \in Callers : InSetterAssignment(t) ]_vars

\* get_board_info has run to its end on a loaded board and nothing moved
C7_Witness ==
  \E t \in Callers :
    /\ op[t] = "get_board_info"
    /\ pc[t] = "done"
    /\ before[t] = All("D1")
    /\ Refs = All("D1")
    /\ Ids = <<1, 2, 3, 4>>

\* C8: a facade operation is delegated whatever the facade's handle is, None
\* included: it ends with one sub-handler call made and with whatever that
\* call came back with.
C8_AcceptedInBothStates ==
  \A h \in Handles : \A t \in Callers :
    (Finished(t) /\ _board = h) =>
      /\ Len(calls[t]) = 1
      /\ sub[t] \in SubOutcomes
      /\ outcome[t] = sub[t]

\* get_board_info on a facade constructed with None and never given a board
C8_Witness ==
  \E t \in Callers :
    /\ Finished(t)
    /\ op[t] = "get_board_info"
    /\ board_arg = None
    /\ before[t] = All(None)
    /\ Refs = All(None)
    /\ Len(calls[t]) = 1
    /\ outcome[t] = Returned("r1")

\* C9: in one execution of the setter the references are written one at a
\* time in the order facade, size, layer, outline, view: after k assignments
\* the first k hold the new value and the others what they held before, also
\* when an assignment raised and ended the setter early.
C9_WrittenInOrder ==
  \A t \in Callers :
    op[t] = "board.setter" =>
      \A i \in 1..5 :
        Refs[i] = IF i <= assigned[t] THEN arg[t] ELSE before[t][i]

\* the assignment to outline_commands raised: facade, size and layer hold the
\* new D2, outline and view the old D1
C9_Witness ==
  \E t \in Callers :
    /\ op[t] = "board.setter"
    /\ pc[t] = "done"
    /\ outcome[t].kind = "raise"
    /\ before[t] = All("D1")
    /\ arg[t] = "D2"
    /\ Refs = <<"D2", "D2", "D2", "D1", "D1">>

\* ------------------------------------------------------ the script's claims
Has(token) == \E i \in 1..Len(d_out) : d_out[i] = token
Pos(token) == CHOOSE i \in 1..Len(d_out) : d_out[i] = token
Tests == {"TEST 1", "TEST 2", "TEST 3"}
TestsRun == {k \in Tests : Has(k)}

\* a test is begun only after the one before it
InOrder ==
  /\ Has("TEST 2") => Has("TEST 1") /\ Pos("TEST 1") < Pos("TEST 2")
  /\ Has("TEST 3") => Has("TEST 2") /\ Pos("TEST 2") < Pos("TEST 3")

Ended == d_pc = "exited"

\* all three tests were attempted and the last line printed is the final one
Completed ==
  /\ d_exit = "0"
  /\ TestsRun = Tests
  /\ d_out[Len(d_out)] = "Diagnostics complete."

EndedBeforeTests == d_exit = "1" /\ TestsRun = {}

\* the parts of the claim about the tests themselves
TestRules ==
  /\ InOrder
  /\ ~Ended => ENABLED DiagNext
  /\ load_called => exists = "yes"
  /\ removed => saved /\ reloaded

\* C10 as stated: when import pcbnew fails the script ends with status 1 and
\* no test run; otherwise the three tests are attempted in order whatever the
\* earlier ones raised and the script reaches "Diagnostics complete."; Test 2
\* calls LoadBoard only for an existing file; Test 3's file is removed only
\* when save and reload returned.
C10_Original ==
  /\ TestRules
  /\ Ended => IF imported THEN Completed ELSE EndedBeforeTests

\* C10 as amended: the same, with "the import fails" replaced by "the import
\* or the printing of pcbnew's file and build version (lines 26-29) raises":
\* an exception of those lines ends the script with status 1 before any test,
\* and the tests run to "Diagnostics complete." once those lines are through.
C10_GuardedTests ==
  /\ TestRules
  /\ TestsRun # {} => announced
  /\ Ended => IF announced THEN Completed ELSE EndedBeforeTests

\* every test raised, and the script still reached its last line; LoadBoard
\* was called for the existing file and the temporary file was left behind
C10_Witness ==
  /\ Ended
  /\ d_exit = "0"
  /\ Has("T1 FAILED") /\ Has("T2 FAILED") /\ Has("T3 FAILED")
  /\ load_called /\ exists = "yes"
  /\ saved /\ ~removed

====
